---- MODULE Spec2Model ----
(***************************************************************************)
(* Model of the macro recorder of src/src/main.rs: the lock-guarded        *)
(* SharedState, the listener callback with its deferred actions, and the   *)
(* playback threads spawned by start_playback.                             *)
(*                                                                         *)
(* Every block of the source that runs while the SharedState mutex is held *)
(* is one action; everything a thread does between two such blocks (sleep, *)
(* Input Sink call, spawn, join) is an action of its own, so the model     *)
(* interleaves the listener and the playback threads exactly where the     *)
(* mutex lets them interleave.  Time is a discrete clock of TickMs         *)
(* milliseconds per tick; thread::sleep(d) returns at any instant not      *)
(* earlier than d after the call.                                          *)
(*                                                                         *)
(* A sleeping thread has no step of its own for waking up: the return of   *)
(* a sleep is taken together with what the thread does next (the re-read   *)
(* of SharedState after the poll sleep, the Input Sink call after the      *)
(* sleep towards an event), at any instant from the wake-up time on.  A    *)
(* thread that woke and has not acted yet cannot be told from one that     *)
(* still sleeps.  In the same way thread::spawn is taken together with     *)
(* the critical section before it.                                         *)
(*                                                                         *)
(* A finished thread frees its slot of thr, and a later spawn may use the  *)
(* slot again.  playback_thread is read by the listener alone, and between *)
(* a spawn and the store of its handle the listener reads nothing, so a    *)
(* stale handle that names a reused slot is overwritten before it is read. *)
(*                                                                         *)
(* Not modelled: a failing Input Sink call and a poisoned mutex (both end  *)
(* in a panic), and the text printed to the console.                       *)
(***************************************************************************)
EXTENDS Integers, Sequences, FiniteSets, TLC

\* ---- bounds of the model ------------------------------------------------
MaxTime == 2          \* the clock runs over 0..MaxTime
MaxEvents == 2        \* cap on the length of recorded_events
MaxThreads == 2       \* cap on simultaneously live playback threads
TickMs == 50          \* milliseconds per clock tick

\* ---- program constants --------------------------------------------------
PausePollMs == 50
PausePoll == IF PausePollMs \div TickMs < 1 THEN 1 ELSE PausePollMs \div TickMs

None == -1            \* Option::None of an Option<Instant> / Option<JoinHandle>

State == {"Idle", "Recording", "Playing", "Paused"}

ControlPress == {"KeyPress_F1", "KeyPress_F2", "KeyPress_F3", "KeyPress_F4"}
ControlRelease == {"KeyRelease_F1", "KeyRelease_F4"}
\* releases of control keys, and raw events that are not control keys: keys
\* and events of a kind are handled alike, so two and one stand for them
OtherInput == {"MouseMove"}
EventType == ControlPress \cup ControlRelease \cup OtherInput

Tids == 1..MaxThreads

VARIABLES
  now,                \* Instant::now()
  state,              \* SharedState.state
  recorded_events,    \* SharedState.recorded_events
  start_record_time,  \* SharedState.start_record_time
  playback_thread,    \* SharedState.playback_thread
  looping,            \* SharedState.looping
  paused_time,        \* SharedState.paused_time
  pause_instant,      \* SharedState.pause_instant
  playback_start,     \* SharedState.playback_start
  recording_length,   \* SharedState.recording_length
  lis,                \* the listener callback: position and locals
  thr,                \* the playback threads: position and locals
  quiet               \* history: stop_playback has returned and no playback was started since

shared == <<state, recorded_events, start_record_time, playback_thread, looping,
            paused_time, pause_instant, playback_start, recording_length>>
vars == <<now, state, recorded_events, start_record_time, playback_thread, looping,
          paused_time, pause_instant, playback_start, recording_length, lis, thr, quiet>>

RecordedEvent(et, ts) == [event_type |-> et, timestamp |-> ts]

\* a thread slot that holds no running thread
NoThread == [pc |-> "none", events |-> <<>>, idx |-> 0, wake |-> 0, replayed |-> <<>>]

ListenerIdle == [pc |-> "listen",
                 start_playback_after_unlock |-> FALSE,
                 stop_playback_after_unlock |-> FALSE,
                 stop_recording_after_unlock |-> FALSE,
                 handle |-> None,
                 \* history, kept while the deferred actions of a press run:
                 \* the key, and the mode and events it found under the lock
                 key |-> "none", mode |-> "Idle", had_events |-> FALSE]

Init ==
  /\ now = 0
  /\ state = "Idle"
  /\ recorded_events = <<>>
  /\ start_record_time = None
  /\ playback_thread = None
  /\ looping = FALSE
  /\ paused_time = 0
  /\ pause_instant = None
  /\ playback_start = None
  /\ recording_length = 0
  /\ lis = ListenerIdle
  /\ thr = [t \in Tids |-> NoThread]
  /\ quiet = FALSE

\* ---- the clock ------------------------------------------------------------
Tick ==
  /\ now < MaxTime
  /\ now' = now + 1
  /\ UNCHANGED <<shared, lis, thr, quiet>>

\* ---- SharedState as a value -------------------------------------------------
\* the SharedState behind the mutex, as the record the functions below work on
SH == [state |-> state, recorded_events |-> recorded_events,
       start_record_time |-> start_record_time, playback_thread |-> playback_thread,
       looping |-> looping, paused_time |-> paused_time,
       pause_instant |-> pause_instant, playback_start |-> playback_start,
       recording_length |-> recording_length]

\* the guard is released with SharedState equal to sh
Store(sh) ==
  /\ state' = sh.state
  /\ recorded_events' = sh.recorded_events
  /\ start_record_time' = sh.start_record_time
  /\ playback_thread' = sh.playback_thread
  /\ looping' = sh.looping
  /\ paused_time' = sh.paused_time
  /\ pause_instant' = sh.pause_instant
  /\ playback_start' = sh.playback_start
  /\ recording_length' = sh.recording_length

NoFlags == [start_playback_after_unlock |-> FALSE,
            stop_playback_after_unlock |-> FALSE,
            stop_recording_after_unlock |-> FALSE]

RECURSIVE MaxTimestamp(_)
\* recorded_events.iter().map(|e| e.timestamp).max().unwrap_or(Duration::ZERO)
MaxTimestamp(evs) ==
  IF evs = <<>> THEN 0
  ELSE LET m == MaxTimestamp(Tail(evs))
       IN IF Head(evs).timestamp > m THEN Head(evs).timestamp ELSE m

\* should_record_event matching EventType::KeyPress only
should_record_event_pressOnly(e) ==
  IF e \in ControlPress THEN FALSE ELSE TRUE

\* lines 145-155
should_record_event(e) ==
  IF e \in ControlPress \cup ControlRelease THEN FALSE ELSE TRUE

\* start_recording without recorded_events.clear()
start_recording_keepsEvents(sh) ==
  LET s1 == IF sh.state \in {"Playing", "Paused"}
            THEN [sh EXCEPT !.state = "Idle", !.playback_thread = None]
            ELSE sh
  IN [s1 EXCEPT !.start_record_time = now, !.state = "Recording"]

start_recording(sh) ==
  LET s1 == IF sh.state \in {"Playing", "Paused"}
            THEN [sh EXCEPT !.state = "Idle", !.playback_thread = None]
            ELSE sh
  IN [s1 EXCEPT !.recorded_events = <<>>,
                !.start_record_time = now,
                !.state = "Recording"]

\* stop_recording without start_record_time = None
stop_recording_keepsStart(sh) ==
  IF sh.state = "Recording"
  THEN [sh EXCEPT !.state = "Idle",
                  !.recording_length =
                     IF sh.recorded_events # <<>>
                     THEN MaxTimestamp(sh.recorded_events) ELSE 0]
  ELSE sh

\* stop_recording without the else branch of line 184
stop_recording_noElse(sh) ==
  IF sh.state = "Recording"
  THEN [sh EXCEPT !.state = "Idle",
                  !.start_record_time = None,
                  !.recording_length =
                     IF sh.recorded_events # <<>>
                     THEN MaxTimestamp(sh.recorded_events) ELSE @]
  ELSE sh

stop_recording(sh) ==
  IF sh.state = "Recording"
  THEN [sh EXCEPT !.state = "Idle",
                  !.start_record_time = None,
                  !.recording_length =
                     IF sh.recorded_events # <<>>
                     THEN MaxTimestamp(sh.recorded_events) ELSE 0]
  ELSE sh

\* record_input_event with the instant of the event as its timestamp
record_input_event_absolute(sh, e) ==
  IF sh.start_record_time # None
  THEN [sh EXCEPT !.recorded_events = Append(@, RecordedEvent(e, now))]
  ELSE sh

\* lines 194-202
record_input_event(sh, e) ==
  IF sh.start_record_time # None
  THEN [sh EXCEPT !.recorded_events =
          Append(@, RecordedEvent(e, now - sh.start_record_time))]
  ELSE sh

\* print_playback_debug, lines 358-367: simulated_time_ms; the Duration
\* subtraction of line 361 panics when the value would be negative
print_playback_debug(sh) ==
  IF sh.playback_start # None
  THEN IF sh.state \in {"Paused", "Playing"}
       THEN (now - sh.playback_start) - sh.paused_time
       ELSE 0
  ELSE 0

\* the "F1" arm with Idle handled by the arm of Paused
PlayPauseKey_idleResumes(sh) ==
  CASE sh.state = "Playing" ->
         [sh |-> [sh EXCEPT !.state = "Paused", !.pause_instant = now],
          fl |-> NoFlags]
    [] sh.state \in {"Paused", "Idle"} ->
         [sh |-> [sh EXCEPT
                    !.paused_time = IF sh.pause_instant # None
                                    THEN @ + (now - sh.pause_instant) ELSE @,
                    !.pause_instant = None,
                    !.state = "Playing"],
          fl |-> NoFlags]
    [] sh.state = "Recording" ->
         [sh |-> sh, fl |-> [NoFlags EXCEPT !.stop_recording_after_unlock = TRUE]]

\* the "F1" arm of the callback: SharedState and flags after it
PlayPauseKey(sh) ==
  CASE sh.state = "Playing" ->
         [sh |-> [sh EXCEPT !.state = "Paused", !.pause_instant = now],
          fl |-> NoFlags]
    [] sh.state = "Paused" ->
         [sh |-> [sh EXCEPT
                    !.paused_time = IF sh.pause_instant # None
                                    THEN @ + (now - sh.pause_instant) ELSE @,
                    !.pause_instant = None,
                    !.state = "Playing"],
          fl |-> NoFlags]
    [] sh.state = "Recording" ->
         [sh |-> sh, fl |-> [NoFlags EXCEPT !.stop_recording_after_unlock = TRUE]]
    [] sh.state = "Idle" ->
         [sh |-> sh,
          fl |-> [NoFlags EXCEPT !.start_playback_after_unlock =
                                    (sh.recorded_events # <<>>)]]

\* the "F4" arm
StartRecordKey(sh) == [sh |-> start_recording(sh), fl |-> NoFlags]

\* the "F2" arm
StopKey(sh) ==
  [sh |-> sh,
   fl |-> [NoFlags EXCEPT
             !.stop_playback_after_unlock = (sh.state \in {"Playing", "Paused"}),
             !.stop_recording_after_unlock = (sh.state = "Recording")]]

\* the "F3" arm switching the loop on instead of flipping it
ToggleLoopKey_enables(sh) == [sh |-> [sh EXCEPT !.looping = TRUE], fl |-> NoFlags]

\* the "F3" arm
ToggleLoopKey(sh) == [sh |-> [sh EXCEPT !.looping = ~sh.looping], fl |-> NoFlags]

\* the match on the pressed key, lines 66-115
ControlKey(sh, e) ==
  CASE e = "KeyPress_F1" -> PlayPauseKey(sh)
    [] e = "KeyPress_F4" -> StartRecordKey(sh)
    [] e = "KeyPress_F2" -> StopKey(sh)
    [] e = "KeyPress_F3" -> ToggleLoopKey(sh)
    [] OTHER -> [sh |-> sh, fl |-> NoFlags]

\* lines 117-122: capture while recording
Capture(sh, e) ==
  IF sh.state = "Recording" /\ should_record_event(e)
  THEN record_input_event(sh, e) ELSE sh

\* where the callback goes once the guard is dropped, lines 125-135
AfterStopRecording(fl) ==
  IF fl.start_playback_after_unlock THEN "start_playback" ELSE "listen"
AfterStopPlayback(fl) ==
  IF fl.stop_recording_after_unlock THEN "stop_recording" ELSE AfterStopRecording(fl)
AfterUnlock(fl) ==
  IF fl.stop_playback_after_unlock THEN "stop_playback" ELSE AfterStopPlayback(fl)

\* the callback returns (its locals go out of scope) or moves on to pc
Goto(l, pc) == IF pc = "listen" THEN ListenerIdle ELSE [l EXCEPT !.pc = pc]

\* slot of the thread that thread::spawn creates: the lowest one not running
FreeTids == {t \in Tids : thr[t].pc = "none"}
NewTid == CHOOSE t \in FreeTids : \A u \in FreeTids : t <= u

\* ---- the listener callback ------------------------------------------------------
\* lines 58-123 for event e: SharedState and the three flags when the guard is dropped
PressResult(e) ==
  LET r == ControlKey(SH, e)
  IN [sh |-> Capture(r.sh, e), fl |-> r.fl]

\* lines 57-123: the Input Source delivers e; the callback handles it under the lock
HandleEvent(e) ==
  /\ lis.pc = "listen"
  /\ LET r == PressResult(e)
     IN /\ Len(r.sh.recorded_events) <= MaxEvents
        /\ r.fl.start_playback_after_unlock => FreeTids # {}
        /\ Store(r.sh)
        /\ lis' = Goto([ListenerIdle EXCEPT
                          !.start_playback_after_unlock = r.fl.start_playback_after_unlock,
                          !.stop_playback_after_unlock = r.fl.stop_playback_after_unlock,
                          !.stop_recording_after_unlock = r.fl.stop_recording_after_unlock,
                          !.key = e, !.mode = state,
                          !.had_events = (recorded_events # <<>>)],
                       AfterUnlock(r.fl))
  /\ UNCHANGED <<now, thr, quiet>>

\* stop_playback with the test of line 340 for Playing alone
stop_playback_state_playingOnly(sh) ==
  IF sh.state = "Playing" THEN [sh EXCEPT !.state = "Idle"] ELSE sh

\* stop_playback, lines 338-344: first critical section
stop_playback_state(sh) ==
  IF sh.state \in {"Playing", "Paused"} THEN [sh EXCEPT !.state = "Idle"] ELSE sh

StopPlaybackSet ==
  /\ lis.pc = "stop_playback"
  /\ Store(stop_playback_state(SH))
  /\ lis' = [lis EXCEPT !.pc = "take_handle"]
  /\ UNCHANGED <<now, thr, quiet>>

\* stop_playback, lines 346-349: shared.playback_thread.take(); with no handle
\* there is nothing to join and stop_playback returns
StopPlaybackTake ==
  /\ lis.pc = "take_handle"
  /\ Store([SH EXCEPT !.playback_thread = None])
  /\ IF playback_thread = None
     THEN /\ lis' = Goto(lis, AfterStopPlayback(lis))
          /\ quiet' = TRUE
     ELSE /\ lis' = [lis EXCEPT !.pc = "join", !.handle = playback_thread]
          /\ quiet' = quiet
  /\ UNCHANGED <<now, thr>>

\* stop_playback, lines 351-353: h.join() returns once the thread has finished
Join ==
  /\ lis.pc = "join"
  /\ thr[lis.handle].pc = "none"
  /\ lis' = Goto(lis, AfterStopPlayback(lis))
  /\ quiet' = TRUE
  /\ UNCHANGED <<now, shared, thr>>

\* lines 129-131 and 171-192
StopRecording ==
  /\ lis.pc = "stop_recording"
  /\ Store(stop_recording(SH))
  /\ lis' = Goto(lis, AfterStopRecording(lis))
  /\ UNCHANGED <<now, thr, quiet>>

\* start_playback without paused_time = Duration::ZERO
begin_playback_keepsPaused(sh) ==
  [sh EXCEPT !.state = "Playing", !.pause_instant = None, !.playback_start = now]

\* start_playback, lines 216-220: the fields set when a playback begins
begin_playback(sh) ==
  [sh EXCEPT !.state = "Playing", !.paused_time = 0,
             !.pause_instant = None, !.playback_start = now]

\* start_playback, lines 205-229: the critical section that takes the snapshot,
\* and thread::spawn with the snapshot moved into the new thread (the thread's
\* first step, PassStart, may come at any later moment)
StartPlaybackLock ==
  /\ lis.pc = "start_playback"
  /\ IF recorded_events = <<>> \/ state = "Playing"
     THEN /\ lis' = ListenerIdle
          /\ UNCHANGED <<shared, quiet, thr>>
     ELSE /\ FreeTids # {}
          /\ Store(begin_playback(SH))
          /\ thr' = [thr EXCEPT ![NewTid] = [NoThread EXCEPT !.pc = "pass_start",
                                                             !.events = recorded_events]]
          /\ lis' = [lis EXCEPT !.pc = "store_handle", !.handle = NewTid]
          /\ quiet' = FALSE
  /\ UNCHANGED now

\* start_playback, lines 331-334
StoreHandle ==
  /\ lis.pc = "store_handle"
  /\ Store([SH EXCEPT !.playback_thread = lis.handle])
  /\ lis' = ListenerIdle
  /\ UNCHANGED <<now, thr, quiet>>

\* ---- the playback thread, lines 228-329 ---------------------------------------
\* the pass clock reset without paused_time = Duration::ZERO
pass_reset_keepsPaused(sh) ==
  [sh EXCEPT !.playback_start = now, !.pause_instant = None]

\* lines 232-237: the pass clock reset
pass_reset(sh) ==
  [sh EXCEPT !.playback_start = now, !.paused_time = 0, !.pause_instant = None]

PassStart(t) ==
  /\ thr[t].pc = "pass_start"
  /\ Store(pass_reset(SH))
  /\ thr' = [thr EXCEPT ![t].idx = 1, ![t].replayed = <<>>,
                        ![t].pc = IF thr[t].events = <<>> THEN "end_pass" ELSE "wait"]
  /\ UNCHANGED <<now, lis, quiet>>

\* the wait loop with Idle handled by the arm of Paused
wait_decision_idlePolls(sh, evt) ==
  CASE sh.state = "Playing" ->
         LET effective_elapsed == (now - sh.playback_start) - sh.paused_time
         IN IF effective_elapsed < 0 THEN [do |-> "panic", ms |-> 0]
            ELSE IF effective_elapsed < evt.timestamp
                 THEN [do |-> "sleep", ms |-> evt.timestamp - effective_elapsed]
                 ELSE [do |-> "replay", ms |-> 0]
    [] sh.state \in {"Paused", "Idle"} -> [do |-> "pause_sleep", ms |-> PausePoll]
    [] OTHER -> [do |-> "return", ms |-> 0]

\* lines 241-270: what one iteration of the wait loop decides for event evt,
\* from the (state, paused_time, playback_start) it read under the lock; the
\* Duration subtraction of line 250 panics when it would be negative
wait_decision(sh, evt) ==
  CASE sh.state = "Playing" ->
         LET effective_elapsed == (now - sh.playback_start) - sh.paused_time
         IN IF effective_elapsed < 0 THEN [do |-> "panic", ms |-> 0]
            ELSE IF effective_elapsed < evt.timestamp
                 THEN [do |-> "sleep", ms |-> evt.timestamp - effective_elapsed]
                 ELSE [do |-> "replay", ms |-> 0]
    [] sh.state = "Paused" -> [do |-> "pause_sleep", ms |-> PausePoll]
    [] OTHER -> [do |-> "return", ms |-> 0]

\* the for loop reading the live recorded_events instead of its snapshot
CurrentEvent_live(t) ==
  IF thr[t].idx <= Len(recorded_events)
  THEN recorded_events[thr[t].idx] ELSE thr[t].events[thr[t].idx]

\* the event the for loop of line 239 is at
CurrentEvent(t) == thr[t].events[thr[t].idx]

\* the thread acts on decision d for its current event; a return and a panic
\* both end the thread
Decide(t, d) ==
  thr' = [thr EXCEPT ![t] =
     CASE d.do = "sleep" -> [@ EXCEPT !.pc = "sleep", !.wake = now + d.ms]
       [] d.do = "pause_sleep" -> [@ EXCEPT !.pc = "pause_sleep", !.wake = now + d.ms]
       [] d.do = "replay" -> [@ EXCEPT !.pc = "replay", !.wake = 0]
       [] OTHER -> NoThread]

\* lines 241-270, entered from the for loop: read SharedState and decide
WaitLoop(t) ==
  /\ thr[t].pc = "wait"
  /\ Decide(t, wait_decision(SH, CurrentEvent(t)))
  /\ UNCHANGED <<now, shared, lis, quiet>>

\* lines 263-264 and 241-270: the poll sleep while Paused has returned
\* (continue), the loop reads SharedState again and decides
PausePoll_WaitLoop(t) ==
  /\ thr[t].pc = "pause_sleep"
  /\ now >= thr[t].wake
  /\ Decide(t, wait_decision(SH, CurrentEvent(t)))
  /\ UNCHANGED <<now, shared, lis, quiet>>

\* the Input Sink call of lines 273-313 for the current event, and the step
\* of the for loop
Inject(t) ==
  thr' = [thr EXCEPT
       ![t].replayed = Append(@, CurrentEvent(t)),
       ![t].idx = @ + 1,
       ![t].wake = 0,
       ![t].pc = IF thr[t].idx + 1 > Len(thr[t].events) THEN "end_pass" ELSE "wait"]

\* lines 273-313 reached without sleeping: the last read of state was Playing
\* with the event already due
Replay(t) ==
  /\ thr[t].pc = "replay"
  /\ Inject(t)
  /\ UNCHANGED <<now, shared, lis, quiet>>

\* lines 257-260 and 273-313: the sleep towards the event's timestamp has
\* returned, break leaves the wait loop and the event is replayed
ReplayAfterSleep(t) ==
  /\ thr[t].pc = "sleep"
  /\ now >= thr[t].wake
  /\ Inject(t)
  /\ UNCHANGED <<now, shared, lis, quiet>>

\* the end of a pass setting Idle whatever the mode is
end_of_pass_alwaysIdle(sh) ==
  IF sh.looping /\ sh.state = "Playing"
  THEN [sh |-> sh, again |-> TRUE]
  ELSE [sh |-> [sh EXCEPT !.state = "Idle"], again |-> FALSE]

\* lines 316-328: the decision at the end of a pass
end_of_pass(sh) ==
  IF sh.looping /\ sh.state = "Playing"
  THEN [sh |-> sh, again |-> TRUE]
  ELSE [sh |-> IF sh.state = "Playing" THEN [sh EXCEPT !.state = "Idle"] ELSE sh,
        again |-> FALSE]

EndPass(t) ==
  /\ thr[t].pc = "end_pass"
  /\ LET r == end_of_pass(SH)
     IN /\ Store(r.sh)
        /\ thr' = [thr EXCEPT ![t] = IF r.again THEN [@ EXCEPT !.pc = "pass_start"]
                                     ELSE NoThread]
  /\ UNCHANGED <<now, lis, quiet>>

\* ---- the specification ---------------------------------------------------------
Listener ==
  \/ \E e \in EventType : HandleEvent(e)
  \/ StopPlaybackSet
  \/ StopPlaybackTake
  \/ Join
  \/ StopRecording
  \/ StartPlaybackLock
  \/ StoreHandle

Scheduler(t) ==
  \/ PassStart(t)
  \/ WaitLoop(t)
  \/ PausePoll_WaitLoop(t)
  \/ Replay(t)
  \/ ReplayAfterSleep(t)
  \/ EndPass(t)

Next == Tick \/ Listener \/ \E t \in Tids : Scheduler(t)

Spec == Init /\ [][Next]_vars

\* ---- vocabulary of the properties ------------------------------------------------
Alive(t) == thr[t].pc # "none"
Injects(t) == Replay(t) \/ ReplayAfterSleep(t)
ListenerReturns == lis.pc # "listen" /\ lis'.pc = "listen"
IsPrefix(p, q) == Len(p) <= Len(q) /\ p = SubSeq(q, 1, Len(p))
Offsets(evs) == {evs[i].timestamp : i \in 1..Len(evs)}
MaxOffset(evs) == CHOOSE m \in Offsets(evs) \cup {0} : \A x \in Offsets(evs) \cup {0} : x <= m

\* the transition table of the four control keys: the mode after a press of
\* key e found mode m, with (had) or without recorded events
Table(e, m, had) ==
  CASE e = "KeyPress_F4" -> "Recording"
    [] e = "KeyPress_F2" -> "Idle"
    [] e = "KeyPress_F3" -> m
    [] e = "KeyPress_F1" ->
         CASE m = "Idle" -> IF had THEN "Playing" ELSE "Idle"
           [] m = "Playing" -> "Paused"
           [] m = "Paused" -> "Playing"
           [] m = "Recording" -> "Idle"

\* for a press that leaves no deferred action, the mode the callback leaves
\* when it drops the guard is the table's (stated on the handler's result, so
\* that a press that changes nothing is covered too)
ImmediateConforms ==
  lis.pc = "listen" =>
     \A e \in ControlPress :
        AfterUnlock(PressResult(e).fl) = "listen"
           => PressResult(e).sh.state = Table(e, state, recorded_events # <<>>)

\* C1 as stated: the mode at the moment the listener finishes handling a control
\* key press, its deferred stop_recording / stop_playback / start_playback
\* included, is the one the transition table gives for the mode before the press.
C1_TableExact ==
  [][/\ ImmediateConforms
     /\ ListenerReturns => state' = Table(lis.key, lis.mode, lis.had_events)]_vars

\* C1 amended: as C1, except that after Play/Pause in Idle with recorded events
\* the mode is Playing when start_playback releases the lock on its snapshot, and
\* Playing or Idle when the listener finishes (a playback thread may already
\* have ended its pass by then).
C1_TableConformance ==
  [][/\ ImmediateConforms
     /\ ListenerReturns =>
          IF lis.key = "KeyPress_F1" /\ lis.mode = "Idle" /\ lis.had_events
          THEN state' \in {"Playing", "Idle"}
          ELSE state' = Table(lis.key, lis.mode, lis.had_events)
     /\ (StartPlaybackLock /\ lis.key = "KeyPress_F1" /\ lis.mode = "Idle"
           /\ lis.had_events) => state' = "Playing"]_vars

\* the listener is about to store the handle of a playback whose thread has
\* already finished its pass and set the mode back to Idle
C1_Witness ==
  /\ lis.pc = "store_handle"
  /\ lis.key = "KeyPress_F1" /\ lis.mode = "Idle" /\ lis.had_events
  /\ state = "Idle"
  /\ ~Alive(lis.handle)

\* C2 as stated: from the moment stop_playback returns until the next playback is
\* started, no playback thread performs an Input Sink call.
C2_NoSinkAfterStop ==
  [][quiet => \A t \in Tids : ~Injects(t)]_vars

\* C3 as stated: an event replayed after a pause began is replayed no earlier
\* than pass start + offset + paused duration.  For a replay in mode Playing
\* (the pause is over, paused_time holds its length) that is now >= playback_start
\* + offset + paused_time; for a replay during the pause it requires at least
\* that the event was due when the pause began.  Scope: one playback thread,
\* looping off, playback neither stopped nor superseded.
C3_PauseFreezesTime ==
  [][\A t \in Tids :
       (/\ Injects(t)
        /\ ~looping
        /\ \A u \in Tids \ {t} : ~Alive(u))
       => /\ state = "Playing" =>
               now >= playback_start + CurrentEvent(t).timestamp + paused_time
          /\ (state = "Paused" /\ pause_instant # None) =>
               pause_instant >= playback_start + CurrentEvent(t).timestamp + paused_time]_vars

\* C4: the sequence a playback thread replays is recorded_events as it was under
\* the lock when its playback was started, whatever is recorded later; within a
\* pass its Input Sink calls follow that order, each event at most once; a pass
\* that reaches its end has replayed every event of the snapshot exactly once.
C4_InOrderSnapshot ==
  [][\A t \in Tids :
       /\ (thr[t].pc = "none" /\ thr'[t].pc # "none")
            => StartPlaybackLock /\ thr'[t].events = recorded_events
       /\ (thr[t].pc # "none" /\ thr'[t].pc # "none")
            => thr'[t].events = thr[t].events
       /\ Injects(t)
            => thr'[t].replayed = Append(thr[t].replayed, thr[t].events[Len(thr[t].replayed) + 1])
       /\ thr'[t].pc # "none" => IsPrefix(thr'[t].replayed, thr'[t].events)
       /\ thr'[t].pc = "end_pass" => thr'[t].replayed = thr'[t].events]_vars

\* a thread has replayed its whole two-event snapshot while recorded_events
\* already holds a different recording
C4_Witness ==
  \E t \in Tids :
     /\ thr[t].pc = "end_pass"
     /\ Len(thr[t].events) = 2
     /\ thr[t].replayed = thr[t].events
     /\ recorded_events # <<>>
     /\ recorded_events # thr[t].events

\* C5: a Start-Record press in any mode, with any recorded events, ends with
\* recorded_events empty and mode Recording; the press itself is not appended.
C5_StartRecordClears ==
  [][HandleEvent("KeyPress_F4")
       => /\ recorded_events' = <<>>
          /\ state' = "Recording"
          /\ lis'.pc = "listen"]_vars

\* Start-Record was pressed during a playback: the playback thread still runs
\* with its non-empty snapshot, the handle is dropped, events are empty
C5_Witness ==
  /\ state = "Recording"
  /\ recorded_events = <<>>
  /\ playback_thread = None
  /\ lis.pc = "listen"
  /\ \E t \in Tids : Alive(t) /\ thr[t].events # <<>>

\* C6: once a recording is stopped, recording_length is the maximum offset of the
\* recorded events (0 without events), and stays so while the mode is Idle,
\* Playing or Paused.
C6_RecordingLength ==
  state \in {"Idle", "Playing", "Paused"}
     => recording_length = MaxOffset(recorded_events)

\* a stopped recording of two events whose greatest offset is not 0
C6_Witness ==
  /\ state = "Idle"
  /\ Len(recorded_events) = 2
  /\ recording_length > 0
  /\ recorded_events[1].timestamp < recorded_events[2].timestamp

\* C7: at the end of a pass the thread starts a new pass over the same snapshot
\* exactly when it sees looping true and mode Playing; the new pass begins with
\* paused_time 0 and playback_start the instant it starts.
C7_Looping ==
  [][\A t \in Tids :
       /\ EndPass(t) =>
            IF looping /\ state = "Playing"
            THEN thr'[t].pc = "pass_start" /\ thr'[t].events = thr[t].events
            ELSE thr'[t].pc = "none"
       /\ PassStart(t) =>
            /\ paused_time' = 0
            /\ playback_start' = now
            /\ thr'[t].idx = 1 /\ thr'[t].replayed = <<>>]_vars

\* a thread that finished a pass, with a pause in it, is about to start the next
C7_Witness ==
  \E t \in Tids :
     /\ thr[t].pc = "pass_start"
     /\ thr[t].replayed = thr[t].events /\ thr[t].events # <<>>
     /\ looping /\ state = "Playing"
     /\ paused_time > 0

\* C8: Play/Pause in Idle with no recorded events does nothing: SharedState is
\* unchanged, no thread is spawned, and no deferred action is left to run.
C8_PlayNothing ==
  [][(HandleEvent("KeyPress_F1") /\ state = "Idle" /\ recorded_events = <<>>)
       => /\ UNCHANGED shared
          /\ UNCHANGED thr
          /\ lis' = ListenerIdle]_vars

\* Idle with an empty recording made after an earlier playback, so that the
\* timing fields hold values the press must leave alone
C8_Witness ==
  /\ state = "Idle" /\ recorded_events = <<>> /\ lis.pc = "listen"
  /\ playback_start # None /\ paused_time > 0 /\ looping

\* C9: a Toggle-Loop press flips looping and changes nothing else, and nothing
\* but a Toggle-Loop press changes looping.
C9_ToggleLoop ==
  [][/\ lis.pc = "listen"
          => PressResult("KeyPress_F3") = [sh |-> [SH EXCEPT !.looping = ~looping],
                                          fl |-> NoFlags]
     /\ HandleEvent("KeyPress_F3")
          => /\ looping' = ~looping
             /\ UNCHANGED <<state, recorded_events, start_record_time, playback_thread,
                            paused_time, pause_instant, playback_start, recording_length,
                            thr, now>>
             /\ lis' = ListenerIdle
     /\ looping' # looping => HandleEvent("KeyPress_F3")]_vars

\* the loop was switched on during a recording that already holds an event
C9_Witness ==
  looping /\ state = "Recording" /\ recorded_events # <<>>

\* C10 as stated: a replay on waking from the sleep towards an event's offset
\* happens only if the mode is (still) Playing.
C10_RecheckAfterSleep ==
  [][\A t \in Tids : ReplayAfterSleep(t) => state = "Playing"]_vars

\* C11 as stated: whenever the mode is Playing or Paused a playback thread is
\* alive, so that no thread ends and leaves the mode Playing or Paused behind.
C11_NoOrphanedPlayback ==
  state \in {"Playing", "Paused"} => \E t \in Tids : Alive(t)

\* C12 as stated: while the mode is Playing or Paused at most one playback
\* thread is alive.
C12_AtMostOneScheduler ==
  state \in {"Playing", "Paused"} => Cardinality({t \in Tids : Alive(t)}) <= 1

\* C13 as stated: a thread that stop_playback is joining ends within one
\* polling interval of the press, so the sleep it is in, if any, has no more
\* than one polling interval left.
C13_StopLatency ==
  \A t \in Tids :
     lis.pc = "join" /\ lis.handle = t /\ thr[t].pc = "sleep"
        => thr[t].wake - now <= PausePoll

\* C15 as stated: pause_instant holds an instant exactly when the mode is
\* Paused.
C15_PauseInstantIffPaused ==
  pause_instant # None <=> state = "Paused"

\* C16: start_record_time holds an instant exactly when the mode is Recording.
C16_RecordStartIffRecording ==
  start_record_time # None <=> state = "Recording"

\* a recording was made and stopped, some time after it began
C16_Witness ==
  /\ state = "Idle" /\ start_record_time = None
  /\ recorded_events # <<>> /\ recording_length > 0

\* C17: recorded_events changes only in the listener callback: a Start-Record
\* press leaves it empty, a raw event that is not a control key and arrives
\* while Recording appends one event with timestamp now - start_record_time,
\* and every other event leaves it as it is; no control key is ever in it.
C17_CaptureFrame ==
  [][/\ lis.pc = "listen" =>
          \A e \in EventType :
             PressResult(e).sh.recorded_events =
                IF e = "KeyPress_F4" THEN <<>>
                ELSE IF e \in OtherInput /\ state = "Recording"
                     THEN Append(recorded_events,
                                 RecordedEvent(e, now - start_record_time))
                     ELSE recorded_events
     /\ recorded_events' # recorded_events => \E e \in EventType : HandleEvent(e)
     /\ \A i \in 1..Len(recorded_events') :
           recorded_events'[i].event_type \notin ControlPress \cup ControlRelease]_vars

\* two events were captured, the second 2 ticks into the recording
C17_Witness ==
  /\ state = "Recording" /\ Len(recorded_events) = 2
  /\ recorded_events[2].timestamp = 2 /\ lis.pc = "listen"

\* C20: the timestamps of recorded_events never decrease along the sequence,
\* and each is the time from the Start-Record press that began the recording,
\* whose instant start_record_time holds until the recording is stopped, to
\* the arrival of the event.
C20_OffsetsMonotone ==
  [][/\ \A i, j \in 1..Len(recorded_events') :
           i <= j => /\ recorded_events'[i].timestamp <= recorded_events'[j].timestamp
                     /\ recorded_events'[i].timestamp >= 0
     /\ HandleEvent("KeyPress_F4") => start_record_time' = now
     /\ start_record_time' # start_record_time
           => HandleEvent("KeyPress_F4") \/ (StopRecording /\ start_record_time' = None)
     /\ Len(recorded_events') > Len(recorded_events)
           => /\ start_record_time' = start_record_time
              /\ recorded_events'[Len(recorded_events')].timestamp
                    = now - start_record_time]_vars

\* a recording that began after time 0 holds two events of different offsets
C20_Witness ==
  /\ state = "Recording" /\ start_record_time > 0 /\ Len(recorded_events) = 2
  /\ recorded_events[1].timestamp < recorded_events[2].timestamp

\* C18: wherever now - playback_start - paused_time is computed, in the wait
\* loop of a playback thread that reads Playing and in the debug print of a
\* pause or a resume, playback_start is present and the value is not negative.
C18_ElapsedNonNegative ==
  /\ state \in {"Playing", "Paused"} => playback_start # None
  /\ \A t \in Tids :
        thr[t].pc \in {"wait", "pause_sleep"}
           => wait_decision(SH, CurrentEvent(t)).do # "panic"
  /\ lis.pc = "listen" /\ state \in {"Playing", "Paused"}
        => print_playback_debug(PlayPauseKey(SH).sh) >= 0

\* a playback that was paused for some time and resumed, its thread in the
\* wait loop, while a thread of an earlier playback is still alive
C18_Witness ==
  /\ state = "Playing" /\ paused_time > 0 /\ lis.pc = "listen"
  /\ \E t \in Tids : thr[t].pc = "wait"
  /\ Cardinality({t \in Tids : Alive(t)}) = 2

\* C19: a step of a playback thread leaves recorded_events, looping,
\* start_record_time and recording_length alone, and changes the mode only
\* from Playing to Idle, at the end of a pass.
C19_SchedulerFrame ==
  [][\A t \in Tids :
        Scheduler(t) =>
           /\ UNCHANGED <<recorded_events, looping, start_record_time,
                          recording_length>>
           /\ state' # state => state = "Playing" /\ state' = "Idle" /\ EndPass(t)]_vars

\* a thread superseded by Start-Record has replayed its snapshot and is at the
\* end of its pass while the new recording holds an event
C19_Witness ==
  /\ state = "Recording" /\ recorded_events # <<>>
  /\ \E t \in Tids : thr[t].pc = "end_pass" /\ thr[t].replayed # <<>>

\* an upper bound on the steps thread record th has left once the mode is Idle
\* and stays Idle: it returns at its next read of the mode, at the latest
\* after the Input Sink call it has already decided on
JoinRank(th) ==
  CASE th.pc = "none" -> 0
    [] th.pc \in {"wait", "pause_sleep", "end_pass"} -> 1
    [] OTHER -> 2

\* C14: stop_playback returns.  While it joins, the mode is Idle; the joined
\* thread is never blocked (it can take a step, or is in a sleep that time
\* ends), each of its steps brings it closer to its end, and once it has ended
\* the join returns.
C14_StopPlaybackReturns ==
  /\ [](lis.pc = "join" =>
          /\ state = "Idle"
          /\ Alive(lis.handle) => \/ ENABLED Scheduler(lis.handle)
                                  \/ thr[lis.handle].pc \in {"sleep", "pause_sleep"}
          /\ ~Alive(lis.handle) => ENABLED Join)
  /\ [][lis.pc = "join" /\ Scheduler(lis.handle)
          => JoinRank(thr'[lis.handle]) < JoinRank(thr[lis.handle])]_vars

\* Stop was pressed while Paused with looping on, and stop_playback is joining
\* a thread that is in its poll sleep
C14_Witness ==
  /\ lis.pc = "join" /\ lis.mode = "Paused" /\ looping
  /\ thr[lis.handle].pc = "pause_sleep"
====
